---- MODULE Spec2Model ----
(***************************************************************************)
(* A model of the request handlers of the TOM Toolkit fork opencadc/tom_base *)
(* that carry logic of their own: the Gaia broker query form, the target    *)
(* visibility form and airmass calculation, the spectroscopy data processor *)
(* and run_data_processor, and the non-sidereal template filters that share *)
(* the module-level eph_obj_coords.                                         *)
(*                                                                          *)
(* Python strings are sequences of atoms (an atom is a character or a word  *)
(* that the code never looks inside).  None and '' are both <<>> where the  *)
(* code only tests truthiness; an optional value is <<>> or <<v>>.          *)
(***************************************************************************)
EXTENDS Integers, Sequences, FiniteSets, TLC

VARIABLES
    call,            \* the call being answered: [op, args, res]; NoCall between requests
    reduced_datums,  \* the ReducedDatum table, in insertion order
    eph_obj_coords   \* targets_extras.eph_obj_coords (module-level global)

vars == <<call, reduced_datums, eph_obj_coords>>

None == <<>>

\* -------------------------------------------------------------------------
\* Bounds of the model
\* -------------------------------------------------------------------------
MaxConeLen == 5
MaxTime == 4
MaxComments == 2
MaxRows == 2

\* -------------------------------------------------------------------------
\* Python string operations, on sequences of atoms
\* -------------------------------------------------------------------------
SeqsUpTo(S, n) == UNION {[1..k -> S] : k \in 0..n}

RECURSIVE LStrip(_)
LStrip(s) == IF s # <<>> /\ Head(s) = " " THEN LStrip(Tail(s)) ELSE s

RECURSIVE RStrip(_)
RStrip(s) ==
    IF s # <<>> /\ s[Len(s)] = " " THEN RStrip(SubSeq(s, 1, Len(s) - 1)) ELSE s

\* str.strip()
Strip(s) == RStrip(LStrip(s))

\* str.split(sep): always at least one part, one more part than separators
RECURSIVE Split(_, _)
Split(s, sep) ==
    IF \A i \in 1..Len(s) : s[i] # sep
    THEN <<s>>
    ELSE LET i == CHOOSE k \in 1..Len(s) :
                      s[k] = sep /\ \A j \in 1..(k - 1) : s[j] # sep
         IN <<SubSeq(s, 1, i - 1)>> \o Split(SubSeq(s, i + 1, Len(s)), sep)

\* the worker is between requests
NoCall == [op |-> "none", args |-> <<>>, res |-> <<>>]
Idle == call = NoCall

\* -------------------------------------------------------------------------
\* tom_alerts/brokers/gaia.py: GaiaQueryForm
\* -------------------------------------------------------------------------
ConeFormatError == "Cone search parameters must be in the format 'RA,Dec,Radius'."
NeitherError == "Please enter either a target name or cone search parameters."
BothError == "Please only enter one of target name or cone search parameters."

\* forms.CharField(required=False): the submitted value, stripped
CharFieldClean(raw) == Strip(raw)

\* clean_cone: the error it raises, if any
CleanConeRaises(cone) == cone # <<>> /\ Len(Split(cone, ",")) # 3

\* clean, without the check that both were given
GaiaCleanNoBoth(target_name, cone) ==
    IF target_name = <<>> /\ cone = <<>> THEN {NeitherError} ELSE {}

\* clean: cone is the value left in cleaned_data (absent when clean_cone raised)
GaiaClean(target_name, cone) ==
    IF ~(target_name # <<>> \/ cone # <<>>) THEN {NeitherError}
    ELSE IF target_name # <<>> /\ cone # <<>> THEN {BothError}
    ELSE {}

\* the errors of a bound GaiaQueryForm (its other fields being valid)
GaiaQueryFormErrors(raw_name, raw_cone) ==
    LET target_name == CharFieldClean(raw_name)
        cone == CharFieldClean(raw_cone)
        cone_errors == IF CleanConeRaises(cone) THEN {ConeFormatError} ELSE {}
        cleaned_cone == IF CleanConeRaises(cone) THEN <<>> ELSE cone
    IN cone_errors \cup GaiaClean(target_name, cleaned_cone)

NameInputs == {<<>>, <<" ">>, <<"G", "a">>}
ConeInputs == SeqsUpTo({"1", ",", " "}, MaxConeLen)

GaiaQueryFormIsValid ==
    /\ Idle
    /\ \E raw_name \in NameInputs, raw_cone \in ConeInputs :
           call' = [op |-> "GaiaQueryForm.is_valid",
                    args |-> [target_name |-> raw_name, cone |-> raw_cone],
                    res |-> [errors |-> GaiaQueryFormErrors(raw_name, raw_cone)]]
    /\ UNCHANGED <<reduced_datums, eph_obj_coords>>

\* -------------------------------------------------------------------------
\* tom_targets/forms.py: TargetVisibilityForm
\* tom_observations/utils.py: get_sidereal_visibility
\* tom_targets/templatetags/targets_extras.py: target_plan
\* -------------------------------------------------------------------------
TargetTypes == {"SIDEREAL", "NON_SIDEREAL"}

StartAfterEndError == "Start time must be before end time"
NonSiderealError == "Airmass plotting is only supported for sidereal targets"

\* clean, without the check of the target type
TargetVisibilityFormCleanAnyType(start_time, end_time, type) ==
    IF end_time < start_time THEN {StartAfterEndError} ELSE {}

\* TargetVisibilityForm.clean: the error it raises, if any
TargetVisibilityFormClean(start_time, end_time, type) ==
    IF end_time < start_time THEN {StartAfterEndError}
    ELSE IF type = "NON_SIDEREAL" THEN {NonSiderealError}
    ELSE {}

\* minutes between the samples target_plan asks for
PlanInterval == 10
\* the airmass limit used when none is given
DefaultAirmassLimit == 10
\* degrees of sun altitude above which it is day (astronomical twilight)
TwilightAlt == -18

\* times (minutes) a window can start or end at
TimeInputs == {5 * t : t \in 0..MaxTime}

\* astroplan.time_grid_from_range: numpy.arange(start, end, resolution)
TimeGridFromRange(start, end, resolution) ==
    LET span == end - start
        n == IF span <= 0 THEN 0 ELSE (span + resolution - 1) \div resolution
    IN [i \in 1..n |-> start + (i - 1) * resolution]

\* the facilities a deployment can install (settings.TOM_FACILITY_CLASSES),
\* in the order get_service_classes() lists them
InstalledInputs == {<<"GEM">>, <<"LCO">>, <<"GEM", "LT">>}

\* get_observing_sites() of a facility; LTFacility returns None
ObservingSites(observing_facility) ==
    CASE observing_facility = "LCO" -> <<{"coj", "ogg"}>>
      [] observing_facility = "GEM" -> <<{"cpo"}>>
      [] observing_facility = "LT" -> None

\* what the sky gives for one site at one time: <<airmass (secz), sun altitude>>
SkySamples == {<<1, -30>>, <<2, -30>>, <<2, -17>>, <<11, -30>>}
LimitInputs == {None, <<2>>, <<12>>}

\* f'({observing_facility}) {site}'
VisibilityKey(observing_facility, site) == <<"(", observing_facility, ")", " ", site>>

\* the samples left out, were daylight not looked at
BadIndexIgnoringSun(obj_airmass, sun_alt, airmass_limit) ==
    obj_airmass >= airmass_limit \/ obj_airmass <= 1

\* bad_indices: the samples get_sidereal_visibility leaves out
BadIndex(obj_airmass, sun_alt, airmass_limit) ==
    \/ obj_airmass >= airmass_limit
    \/ obj_airmass <= 1
    \/ sun_alt > TwilightAlt

\* the sites whose sky get_sidereal_visibility looks at before it returns or raises
SitesOf(installed) ==
    UNION {{<<installed[k], s>> : s \in ObservingSites(installed[k])[1]} :
              k \in {i \in 1..Len(installed) : ObservingSites(installed[i]) # None}}

\* the check get_sidereal_visibility makes of the target type
NotSidereal(type) == type # "SIDEREAL"

\* get_sidereal_visibility(target, start_time, end_time, interval, airmass_limit)
\* with the facilities installed and the sky as it is: sky[<<facility, site, i>>]
GetSiderealVisibility(type, start_time, end_time, interval, airmass_limit, installed, sky) ==
    LET limit == IF airmass_limit = None THEN DefaultAirmassLimit ELSE airmass_limit[1]
        time_range == TimeGridFromRange(start_time, end_time, interval)
        \* the first facility whose get_observing_sites() is None stops the loop
        broken == {k \in 1..Len(installed) : ObservingSites(installed[k]) = None}
        last == IF broken = {} THEN Len(installed)
                ELSE CHOOSE k \in broken : \A j \in broken : k <= j
        airmasses(f, s) ==
            [i \in 1..Len(time_range) |->
                IF BadIndex(sky[<<f, s, i>>][1], sky[<<f, s, i>>][2], limit)
                THEN None ELSE <<sky[<<f, s, i>>][1]>>]
        keys == {VisibilityKey(p[1], p[2]) : p \in SitesOf(installed)}
        visibility == [k \in keys |->
            LET p == CHOOSE q \in SitesOf(installed) : VisibilityKey(q[1], q[2]) = k
            IN [times |-> time_range, airmass |-> airmasses(p[1], p[2])]]
    IN IF NotSidereal(type)
       THEN [outcome |-> "ok", error |-> "", visibility |-> <<>>, queried |-> <<>>]
       ELSE IF end_time < start_time
       THEN [outcome |-> "Exception", error |-> "Start must be before end",
             visibility |-> <<>>, queried |-> <<>>]
       ELSE IF Len(time_range) = 0
       THEN [outcome |-> "IndexError", error |-> "", visibility |-> <<>>, queried |-> <<>>]
       ELSE IF broken # {}
       THEN [outcome |-> "AttributeError", error |-> "", visibility |-> <<>>,
             queried |-> SubSeq(installed, 1, last)]
       ELSE [outcome |-> "ok", error |-> "", visibility |-> visibility,
             queried |-> installed]

\* the sky samples a call reads: none when it returns or raises before the loop
SkyInputs(type, start_time, end_time, interval, installed) ==
    LET n == Len(TimeGridFromRange(start_time, end_time, interval))
        cells == IF type # "SIDEREAL" \/ end_time < start_time
                    \/ \E k \in 1..Len(installed) : ObservingSites(installed[k]) = None
                 THEN {}
                 ELSE {<<p[1], p[2], i>> : p \in SitesOf(installed), i \in 1..n}
    IN [cells -> SkySamples]

\* target_plan(context): GET parameters are <<>> when absent or empty
TargetPlan(type, get_start, get_end, get_airmass, installed, sky) ==
    IF get_start = <<>> \/ get_end = <<>>
    THEN [outcome |-> "ok", bound |-> FALSE, errors |-> {}, visibility_graph |-> <<>>]
    ELSE LET errors == TargetVisibilityFormClean(get_start[1], get_end[1], type)
             v == GetSiderealVisibility(type, get_start[1], get_end[1], PlanInterval,
                                        get_airmass, installed, sky)
         IN IF errors # {}
            THEN [outcome |-> "ok", bound |-> TRUE, errors |-> errors,
                  visibility_graph |-> <<>>]
            ELSE IF v.outcome # "ok"
            THEN [outcome |-> v.outcome, bound |-> TRUE, errors |-> {},
                  visibility_graph |-> <<>>]
            ELSE [outcome |-> "ok", bound |-> TRUE, errors |-> {},
                  visibility_graph |-> <<v.visibility>>]

TargetVisibilityFormIsValid ==
    /\ Idle
    /\ \E type \in TargetTypes, start_time \in TimeInputs, end_time \in TimeInputs :
           call' = [op |-> "TargetVisibilityForm.is_valid",
                    args |-> [type |-> type, start_time |-> start_time,
                              end_time |-> end_time],
                    res |-> [errors |->
                                TargetVisibilityFormClean(start_time, end_time, type)]]
    /\ UNCHANGED <<reduced_datums, eph_obj_coords>>

GetSiderealVisibilityCall ==
    /\ Idle
    /\ \E type \in TargetTypes, start_time \in TimeInputs, end_time \in TimeInputs,
          airmass_limit \in LimitInputs, installed \in InstalledInputs :
         \E sky \in SkyInputs(type, start_time, end_time, PlanInterval, installed) :
           call' = [op |-> "get_sidereal_visibility",
                    args |-> [type |-> type, start_time |-> start_time,
                              end_time |-> end_time, interval |-> PlanInterval,
                              airmass_limit |-> airmass_limit,
                              installed |-> installed, sky |-> sky],
                    res |-> GetSiderealVisibility(type, start_time, end_time, PlanInterval,
                                                  airmass_limit, installed, sky)]
    /\ UNCHANGED <<reduced_datums, eph_obj_coords>>

TargetPlanCall ==
    /\ Idle
    /\ \E type \in TargetTypes,
          get_start \in {None} \cup {<<t>> : t \in TimeInputs},
          get_end \in {None} \cup {<<t>> : t \in TimeInputs},
          get_airmass \in LimitInputs, installed \in InstalledInputs :
         \E sky \in IF get_start = None \/ get_end = None THEN {<<>>}
                    ELSE SkyInputs(type, get_start[1], get_end[1], PlanInterval, installed) :
           call' = [op |-> "target_plan",
                    args |-> [type |-> type, start_time |-> get_start,
                              end_time |-> get_end, airmass |-> get_airmass,
                              installed |-> installed, sky |-> sky],
                    res |-> TargetPlan(type, get_start, get_end, get_airmass,
                                       installed, sky)]
    /\ UNCHANGED <<reduced_datums, eph_obj_coords>>

\* -------------------------------------------------------------------------
\* tom_dataproducts/data_processor.py: DataProcessor
\* tom_dataproducts/processors/spectroscopy_processor.py: SpectroscopyProcessor
\* -------------------------------------------------------------------------
FITS_MIMETYPES == {"image/fits", "application/fits"}
PLAINTEXT_MIMETYPES == {"text/plain", "text/csv"}

UnsupportedFileType == "Unsupported file type"
NoObservationDate == "Observation date must be specified in form or included in file."
InvalidDatetime == "Invalid datetime format."
EmptyTable == "Empty table or invalid file type"

\* get_service_classes(): the installed facilities, in order
ServiceClasses == <<"GEM", "LCO">>

\* calendar dates astropy reads, and the modified Julian dates of some
IsoDates == {"2020-01-01", "2021-06-30"}
Digits == {"00", "08", "10", "15", "20", "30"}
MjdDates == [d \in {"58849"} |-> "2020-01-01"]

\* astropy Time(value) for a string without a format: date, date and hh:mm,
\* or date and hh:mm:ss; <<>> stands for ValueError
TimeAuto(s) ==
    IF Len(s) = 1 /\ s[1] \in IsoDates THEN <<<<s[1], "00", "00", "00">>>>
    ELSE IF /\ Len(s) = 5 /\ s[1] \in IsoDates /\ s[2] \in {"T", " "}
            /\ s[3] \in Digits /\ s[4] = ":" /\ s[5] \in Digits
    THEN <<<<s[1], s[3], s[5], "00">>>>
    ELSE IF /\ Len(s) = 7 /\ s[1] \in IsoDates /\ s[2] \in {"T", " "}
            /\ s[3] \in Digits /\ s[4] = ":" /\ s[5] \in Digits
            /\ s[6] = ":" /\ s[7] \in Digits
    THEN <<<<s[1], s[3], s[5], s[7]>>>>
    ELSE None

\* astropy Time(value, format='mjd')
TimeMjd(s) ==
    IF Len(s) = 1 /\ s[1] \in DOMAIN MjdDates
    THEN <<<<MjdDates[s[1]], "00", "00", "00">>>>
    ELSE None

\* DataProcessor._date_obs_to_astropy_time: the UTC datetime <<date, hh, mm, ss>>
DateObsToAstropyTime(date_obs) ==
    IF TimeAuto(date_obs) # None
    THEN [outcome |-> "ok", error |-> "", value |-> TimeAuto(date_obs)[1]]
    ELSE IF TimeMjd(date_obs) # None
    THEN [outcome |-> "ok", error |-> "", value |-> TimeMjd(date_obs)[1]]
    ELSE [outcome |-> "InvalidFileFormatException", error |-> InvalidDatetime,
          value |-> <<>>]

\* facility.get_flux_constant() / DEFAULT_FLUX_CONSTANT,
\* facility.get_wavelength_units() / DEFAULT_WAVELENGTH_UNITS
FluxConstant(facility) ==
    IF facility = None THEN "DEFAULT_FLUX_CONSTANT" ELSE facility[1]
WavelengthUnits(facility) ==
    IF facility = None THEN "DEFAULT_WAVELENGTH_UNITS" ELSE facility[1]

Raised(outcome, error) ==
    [outcome |-> outcome, error |-> error, spectrum |-> <<>>, date_obs |-> <<>>]

\* the facility of a FITS file: from the form, else the first installed
\* facility whose is_fits_facility(header) holds, else None
FitsFacility(header, kwargs) ==
    IF kwargs.facility = None
    THEN LET hits == {k \in 1..Len(ServiceClasses) :
                         ServiceClasses[k] \in header.is_fits_facility}
         IN IF hits = {} THEN None
            ELSE <<ServiceClasses[CHOOSE k \in hits : \A j \in hits : k <= j]>>
    ELSE kwargs.facility

\* SpectroscopyProcessor._process_spectrum_from_fits
ProcessSpectrumFromFits(file, kwargs) ==
    LET header == file.header
        facility == FitsFacility(header, kwargs)
        form_date == kwargs.observation_date
        flux_constant == FluxConstant(facility)
        spectrum == [flux |-> <<file.name, flux_constant>>, wcs |-> "Angstrom"]
    IN IF form_date = None /\ facility = None
       THEN Raised("InvalidFileFormatException", NoObservationDate)
       ELSE LET date_obs == IF form_date # None THEN form_date ELSE header.date_obs
                t == DateObsToAstropyTime(date_obs)
            IN IF t.outcome # "ok" THEN Raised(t.outcome, t.error)
               ELSE [outcome |-> "ok", error |-> "", spectrum |-> spectrum,
                     date_obs |-> t.value]

\* str.lower() of an atom
Lower(atom) ==
    CASE atom \in {"FACILITY", "Facility"} -> "facility"
      [] atom = "DATE-OBS" -> "date-obs"
      [] OTHER -> atom

\* word in comment.lower()
InLower(word, comment) == \E i \in 1..Len(comment) : Lower(comment[i]) = word

\* comment.split(':')[1].strip(); <<>> in place of the value when split(':')
\* has one part only (IndexError)
SecondPart(comment) ==
    LET parts == Split(comment, ":")
    IN IF Len(parts) < 2 THEN [outcome |-> "IndexError", value |-> <<>>]
       ELSE [outcome |-> "ok", value |-> Strip(parts[2])]

\* one turn of the loop over the comments, were the file to override the form
CommentStepFileFirst(st, comment) ==
    LET fac == IF st.outcome = "ok" /\ InLower("facility", comment)
               THEN SecondPart(comment) ELSE [outcome |-> st.outcome, value |-> st.facility_name]
        dat == IF fac.outcome = "ok" /\ InLower("date-obs", comment)
               THEN SecondPart(comment) ELSE [outcome |-> fac.outcome, value |-> st.date_obs]
    IN [outcome |-> dat.outcome, facility_name |-> fac.value, date_obs |-> dat.value]

\* one turn of the loop over the comments: st is [outcome, facility_name, date_obs]
CommentStep(st, comment) ==
    LET fac == IF st.outcome = "ok" /\ st.facility_name = <<>> /\ InLower("facility", comment)
               THEN SecondPart(comment) ELSE [outcome |-> st.outcome, value |-> st.facility_name]
        dat == IF fac.outcome = "ok" /\ st.date_obs = <<>> /\ InLower("date-obs", comment)
               THEN SecondPart(comment) ELSE [outcome |-> fac.outcome, value |-> st.date_obs]
    IN [outcome |-> dat.outcome, facility_name |-> fac.value, date_obs |-> dat.value]

RECURSIVE CommentLoop(_, _)
CommentLoop(st, comments) ==
    IF comments = <<>> THEN st
    ELSE CommentLoop(CommentStep(st, Head(comments)), Tail(comments))

\* a form facility is a name; a facility name read from a comment is a string
FacilityName(facility) == IF facility = None THEN <<>> ELSE facility

\* SpectroscopyProcessor._process_spectrum_from_plaintext
ProcessSpectrumFromPlaintext(file, kwargs) ==
    LET st == CommentLoop([outcome |-> "ok",
                           facility_name |-> FacilityName(kwargs.facility),
                           date_obs |-> kwargs.observation_date], file.comments)
        t == DateObsToAstropyTime(st.date_obs)
        facility == st.facility_name
        spectrum == [flux |-> <<file.name, FluxConstant(facility)>>,
                     spectral_axis |-> <<file.name, WavelengthUnits(facility)>>]
    IN IF file.rows < 1 THEN Raised("InvalidFileFormatException", EmptyTable)
       ELSE IF st.outcome # "ok" THEN Raised(st.outcome, "")
       ELSE IF st.date_obs = <<>>
       THEN Raised("InvalidFileFormatException", NoObservationDate)
       ELSE IF t.outcome # "ok" THEN Raised(t.outcome, t.error)
       ELSE [outcome |-> "ok", error |-> "", spectrum |-> spectrum, date_obs |-> t.value]

\* SpectrumSerializer().serialize(spectrum)
Serialize(spectrum) == <<"serialized", spectrum>>

\* the routing of process_data, were image/fits the only FITS mimetype known
RouteImageFitsOnly(mimetype) ==
    IF mimetype # None /\ mimetype[1] = "image/fits" THEN "fits"
    ELSE IF mimetype # None /\ mimetype[1] \in PLAINTEXT_MIMETYPES THEN "plaintext"
    ELSE "unsupported"

\* the routing of SpectroscopyProcessor.process_data by the guessed mimetype
Route(mimetype) ==
    IF mimetype # None /\ mimetype[1] \in FITS_MIMETYPES THEN "fits"
    ELSE IF mimetype # None /\ mimetype[1] \in PLAINTEXT_MIMETYPES THEN "plaintext"
    ELSE "unsupported"

\* SpectroscopyProcessor.process_data
ProcessData(file, kwargs) ==
    LET r == IF Route(file.mimetype) = "fits" THEN ProcessSpectrumFromFits(file, kwargs)
             ELSE IF Route(file.mimetype) = "plaintext"
             THEN ProcessSpectrumFromPlaintext(file, kwargs)
             ELSE Raised("InvalidFileFormatException", UnsupportedFileType)
    IN IF r.outcome # "ok" THEN [outcome |-> r.outcome, error |-> r.error, data |-> <<>>]
       ELSE [outcome |-> "ok", error |-> "",
             data |-> <<<<r.date_obs, Serialize(r.spectrum)>>>>]

\* --- inputs ---------------------------------------------------------------
FormDates == {None, <<"2021-06-30", "T", "08", ":", "15", ":", "00">>}
FormFacilities == {None, <<"GEM">>, <<"LCO">>}
KwargsInputs == [facility : FormFacilities, observation_date : FormDates]

HeaderDates == {<<>>, <<"2020-01-01">>, <<"58849">>, <<"2020-01-01", "T", "10">>}
FitsContents ==
    [header : [is_fits_facility : SUBSET {"GEM", "LCO"}, date_obs : HeaderDates]]

CommentInputs ==
    {<<"DATE-OBS", ":", " ", "2020-01-01">>,
     <<"DATE-OBS", ":", " ", "2020-01-01", "T", "10", ":", "20", ":", "30">>,
     <<"DATE-OBS", ":", " ", "58849">>,
     <<"date-obs", " ", "2020-01-01">>,
     <<"FACILITY", ":", " ", "LCO">>,
     <<"Facility", ":", "GEM">>,
     <<"reduced", " ", "spectrum">>}
TableContents == [rows : {0, 1}, comments : SeqsUpTo(CommentInputs, MaxComments)]

NoHeader == [is_fits_facility |-> {}, date_obs |-> <<>>]

FitsFile(mimetype, c) ==
    [name |-> "spectrum", mimetype |-> mimetype, header |-> c.header,
     rows |-> 0, comments |-> <<>>]
TableFile(mimetype, c) ==
    [name |-> "spectrum", mimetype |-> mimetype, header |-> NoHeader,
     rows |-> c.rows, comments |-> c.comments]

\* the files a data product can hold: the path decides the mimetype
FileInputs ==
    {FitsFile(<<m>>, c) : m \in FITS_MIMETYPES, c \in FitsContents}
    \cup {TableFile(<<m>>, c) : m \in PLAINTEXT_MIMETYPES, c \in TableContents}
    \cup {FitsFile(m, c) : m \in {None, <<"application/pdf">>},
                           c \in {x \in FitsContents : x.header.date_obs = <<>>}}

ProcessDataCall ==
    /\ Idle
    /\ \E file \in FileInputs, kwargs \in KwargsInputs :
           call' = [op |-> "process_data",
                    args |-> [file |-> file, kwargs |-> kwargs],
                    res |-> ProcessData(file, kwargs)]
    /\ UNCHANGED <<reduced_datums, eph_obj_coords>>

ProcessSpectrumFromFitsCall ==
    /\ Idle
    /\ \E m \in FITS_MIMETYPES, c \in FitsContents, kwargs \in KwargsInputs :
           call' = [op |-> "_process_spectrum_from_fits",
                    args |-> [file |-> FitsFile(<<m>>, c), kwargs |-> kwargs],
                    res |-> ProcessSpectrumFromFits(FitsFile(<<m>>, c), kwargs)]
    /\ UNCHANGED <<reduced_datums, eph_obj_coords>>

ProcessSpectrumFromPlaintextCall ==
    /\ Idle
    /\ \E m \in PLAINTEXT_MIMETYPES, c \in TableContents, kwargs \in KwargsInputs :
           call' = [op |-> "_process_spectrum_from_plaintext",
                    args |-> [file |-> TableFile(<<m>>, c), kwargs |-> kwargs],
                    res |-> ProcessSpectrumFromPlaintext(TableFile(<<m>>, c), kwargs)]
    /\ UNCHANGED <<reduced_datums, eph_obj_coords>>

\* -------------------------------------------------------------------------
\* tom_dataproducts/data_processor.py: run_data_processor
\* tom_dataproducts/views.py: DataProductDeleteView
\* -------------------------------------------------------------------------
DEFAULT_DATA_PROCESSOR_CLASS == "tom_dataproducts.data_processor.DataProcessor"
SpectroscopyProcessorClass ==
    "tom_dataproducts.processors.spectroscopy_processor.SpectroscopyProcessor"
\* a processor of the deployment's own, a subclass of DataProcessor
CustomProcessorClass == "custom_code.processors.PhotometryProcessor"

\* settings.DATA_PRODUCT_TYPES of the deployment: one type with a processor of
\* each kind, one with none, and one whose class cannot be imported
DATA_PRODUCT_TYPES ==
    [spectroscopy |-> SpectroscopyProcessorClass,
     photometry |-> CustomProcessorClass,
     fits_file |-> "",
     image_file |-> "no.such.module.Processor"]

\* the classes import_module and getattr find
Importable ==
    {DEFAULT_DATA_PROCESSOR_CLASS, SpectroscopyProcessorClass, CustomProcessorClass}

\* the try block that picks processor_class
ProcessorClass(data_product_type) ==
    IF data_product_type \in DOMAIN DATA_PRODUCT_TYPES
       /\ DATA_PRODUCT_TYPES[data_product_type] # ""
    THEN DATA_PRODUCT_TYPES[data_product_type]
    ELSE DEFAULT_DATA_PROCESSOR_CLASS

\* DataProcessor.process_data
DefaultProcessData(dp, kwargs) == [outcome |-> "ok", error |-> "", data |-> <<>>]

\* the rows created, were only the first datum stored
CreateFirstReducedDatum(dp, data) ==
    [i \in 1..(IF Len(data) = 0 THEN 0 ELSE 1) |->
        [target |-> dp.target, data_product |-> dp.id,
         data_type |-> dp.data_product_type,
         timestamp |-> data[i][1], value |-> data[i][2]]]

\* the loop of ReducedDatum.objects.create
CreateReducedDatums(dp, data) ==
    [i \in 1..Len(data) |->
        [target |-> dp.target, data_product |-> dp.id,
         data_type |-> dp.data_product_type,
         timestamp |-> data[i][1], value |-> data[i][2]]]

\* import_module and getattr on processor_class, then what process_data gave
Imported(processor_class, r) ==
    IF processor_class \notin Importable
    THEN [outcome |-> "ImportError", error |-> processor_class,
          processor_class |-> processor_class, data |-> <<>>]
    ELSE [outcome |-> r.outcome, error |-> r.error,
          processor_class |-> processor_class, data |-> r.data]

\* clazz().process_data(dp, **kwargs); custom_data is what the deployment's
\* own processor returns for dp
Processed(processor_class, dp, kwargs, custom_data) ==
    IF processor_class = SpectroscopyProcessorClass
    THEN ProcessData(dp.data, kwargs)
    ELSE IF processor_class = CustomProcessorClass
    THEN [outcome |-> "ok", error |-> "", data |-> custom_data]
    ELSE DefaultProcessData(dp, kwargs)

\* run_data_processor(dp, **kwargs) up to the loop
RunProcessor(dp, kwargs, custom_data) ==
    Imported(ProcessorClass(dp.data_product_type),
             Processed(ProcessorClass(dp.data_product_type), dp, kwargs, custom_data))

\* --- inputs ---------------------------------------------------------------
TypeInputs == {"spectroscopy", "photometry", "fits_file", "image_file", "other"}

GoodFits ==
    FitsFile(<<"application/fits">>,
             [header |-> [is_fits_facility |-> {"LCO"}, date_obs |-> <<"58849">>]])
BadFile == FitsFile(<<"application/pdf">>, [header |-> NoHeader])

TargetOf(id) == IF id = 1 THEN "M31" ELSE "M42"

DataProductInputs ==
    {[id |-> id, target |-> TargetOf(id), data_product_type |-> type, data |-> file] :
        id \in {1, 2}, type \in TypeInputs, file \in {GoodFits, BadFile}}

RunKwargsInputs ==
    {[facility |-> None, observation_date |-> None],
     [facility |-> <<"GEM">>,
      observation_date |-> <<"2021-06-30", "T", "08", ":", "15", ":", "00">>]}

DatumInputs == {<<<<"2020-01-01", "10", "20", "30">>, "mag 17">>,
                <<<<"2021-06-30", "00", "00", "00">>, "mag 18">>}

CustomDataInputs(dp) ==
    IF ProcessorClass(dp.data_product_type) = CustomProcessorClass
    THEN SeqsUpTo(DatumInputs, 2) ELSE {<<>>}

\* the loop of run_data_processor, r being what came before it
StoreReducedDatums(dp, kwargs, r) ==
    /\ Len(reduced_datums) + Len(r.data) <= MaxRows
    /\ call' = [op |-> "run_data_processor",
                args |-> [dp |-> dp, kwargs |-> kwargs], res |-> r]
    /\ reduced_datums' =
           IF r.outcome = "ok"
           THEN reduced_datums \o CreateReducedDatums(dp, r.data)
           ELSE reduced_datums

RunDataProcessor ==
    /\ Idle
    /\ \E dp \in DataProductInputs, kwargs \in RunKwargsInputs :
         \E custom_data \in CustomDataInputs(dp) :
            StoreReducedDatums(dp, kwargs, RunProcessor(dp, kwargs, custom_data))
    /\ UNCHANGED eph_obj_coords

\* DataProductDeleteView.delete: the data product's reduced data go with it
DataProductDelete ==
    /\ Idle
    /\ \E id \in {1, 2} :
          /\ call' = [op |-> "DataProductDeleteView.delete",
                      args |-> [id |-> id], res |-> [outcome |-> "ok"]]
          /\ reduced_datums' = SelectSeq(reduced_datums, LAMBDA d : d.data_product # id)
    /\ UNCHANGED eph_obj_coords

\* -------------------------------------------------------------------------
\* tom_targets/templatetags/targets_extras.py: non_sidereal_ra, non_sidereal_dec
\* -------------------------------------------------------------------------
\* Horizons(id=..., epochs=now).ephemerides(): RA and DEC of the first row,
\* None when the query raises
HorizonsEphemerides(id) ==
    CASE id = "Ceres" -> <<<<45, 12>>>>
      [] id = "2002" -> <<<<200, -8>>>>
      [] OTHER -> None

\* target.names: each name a sequence of words (what str.split() gives)
NamesInputs == {<<>>, <<<<"Ceres">>>>, <<<<"2002", "MS4">>, <<"Ceres">>>>, <<<<"Xyzzy">>>>}

\* non_sidereal_ra: the value returned and eph_obj_coords afterwards
NonSiderealRa(coords, target_name) ==
    LET eph == IF target_name = <<>> THEN None
               ELSE HorizonsEphemerides(target_name[1][1])
    IN IF coords = None /\ eph # None
       THEN [value |-> <<eph[1][1]>>, coords |-> eph[1]]
       ELSE [value |-> None, coords |-> coords]

\* non_sidereal_dec, were eph_obj_coords not reset
NonSiderealDecKeeping(coords, target_name) ==
    IF coords # None
    THEN [value |-> <<coords[2]>>, coords |-> coords]
    ELSE [value |-> None, coords |-> coords]

\* non_sidereal_dec: the value returned and eph_obj_coords afterwards
NonSiderealDec(coords, target_name) ==
    IF coords # None
    THEN [value |-> <<coords[2]>>, coords |-> None]
    ELSE [value |-> None, coords |-> coords]

NonSiderealRaCall ==
    /\ Idle
    /\ \E target_name \in NamesInputs :
          /\ call' = [op |-> "non_sidereal_ra", args |-> [target_name |-> target_name],
                      res |-> [value |-> NonSiderealRa(eph_obj_coords, target_name).value]]
          /\ eph_obj_coords' = NonSiderealRa(eph_obj_coords, target_name).coords
    /\ UNCHANGED reduced_datums

NonSiderealDecCall ==
    /\ Idle
    /\ \E target_name \in NamesInputs :
          /\ call' = [op |-> "non_sidereal_dec", args |-> [target_name |-> target_name],
                      res |-> [value |-> NonSiderealDec(eph_obj_coords, target_name).value]]
          /\ eph_obj_coords' = NonSiderealDec(eph_obj_coords, target_name).coords
    /\ UNCHANGED reduced_datums

\* -------------------------------------------------------------------------
\* Initial state and specifications
\* -------------------------------------------------------------------------
Init ==
    /\ call = NoCall
    /\ reduced_datums = <<>>
    /\ eph_obj_coords = None

\* the response is delivered and the worker takes the next request; the
\* database and the module globals of the process live on
Respond ==
    /\ ~Idle
    /\ call' = NoCall
    /\ UNCHANGED <<reduced_datums, eph_obj_coords>>

NextGaia == GaiaQueryFormIsValid \/ Respond

SpecGaia == Init /\ [][NextGaia]_vars

NextVis ==
    \/ TargetVisibilityFormIsValid
    \/ GetSiderealVisibilityCall
    \/ TargetPlanCall
    \/ Respond

SpecVis == Init /\ [][NextVis]_vars

NextProc ==
    \/ ProcessDataCall
    \/ ProcessSpectrumFromFitsCall
    \/ ProcessSpectrumFromPlaintextCall
    \/ Respond

SpecProc == Init /\ [][NextProc]_vars

NextDP ==
    \/ RunDataProcessor
    \/ DataProductDelete
    \/ Respond

SpecDP == Init /\ [][NextDP]_vars

\* every operation that leaves the database alone, in one process
Next ==
    \/ NonSiderealRaCall
    \/ NonSiderealDecCall
    \/ TargetVisibilityFormIsValid
    \/ GetSiderealVisibilityCall
    \/ TargetPlanCall
    \/ GaiaQueryFormIsValid
    \/ ProcessDataCall
    \/ Respond

Spec == Init /\ [][Next]_vars

\* -------------------------------------------------------------------------
\* Claims
\* -------------------------------------------------------------------------

\* C10: GaiaQueryForm is valid if and only if exactly one of target_name and
\* cone is non-empty (as cleaned, i.e. stripped) and, when cone is the one
\* given, it has exactly three comma-separated parts.
C10_GaiaFormValidIff ==
    call.op = "GaiaQueryForm.is_valid" =>
        LET n == Strip(call.args.target_name)
            c == Strip(call.args.cone)
            commas == Cardinality({i \in 1..Len(c) : c[i] = ","})
        IN (call.res.errors = {}) <=>
               \/ n # <<>> /\ c = <<>>
               \/ n = <<>> /\ c # <<>> /\ commas = 2

C10_Witness ==
    /\ call.op = "GaiaQueryForm.is_valid"
    /\ call.args.target_name = <<>>
    /\ call.args.cone = <<"1", ",", "1", ",", "1">>
    /\ call.res.errors = {}

C8_WindowNeedsStartBeforeEnd ==
    /\ (/\ call.op = "TargetVisibilityForm.is_valid"
        /\ ~(call.args.start_time < call.args.end_time)) =>
           "Start time must be before end time" \in call.res.errors
    /\ (/\ call.op = "get_sidereal_visibility"
        /\ call.args.type = "SIDEREAL"
        /\ ~(call.args.start_time < call.args.end_time)) =>
           /\ call.res.outcome = "Exception"
           /\ call.res.error = "Start must be before end"

C4_FitsDateFromHeaderOrNow ==
    (/\ call.op = "_process_spectrum_from_fits"
     /\ call.args.kwargs.observation_date = None) =>
        LET h == call.args.file.header
            supported == call.args.kwargs.facility # None \/ h.is_fits_facility # {}
        IN IF supported /\ h.date_obs # <<>>
           THEN DateObsToAstropyTime(h.date_obs).outcome = "ok" =>
                    /\ call.res.outcome = "ok"
                    /\ call.res.date_obs = DateObsToAstropyTime(h.date_obs).value
           ELSE /\ call.res.outcome = "ok"
                /\ call.res.date_obs = <<"now">>

\* C5: for a plaintext spectrum processed without a date or facility from the
\* form, the observation date is the entire value after 'DATE-OBS:' and the
\* facility the entire value after 'FACILITY:'; with no date in the comments
\* InvalidFileFormatException is raised.
C5_PlaintextDateIsEntireValue ==
    (/\ call.op = "_process_spectrum_from_plaintext"
     /\ call.args.kwargs.observation_date = None
     /\ call.args.kwargs.facility = None
     /\ call.args.file.rows >= 1) =>
        LET cs == call.args.file.comments
            dated == {i \in 1..Len(cs) : cs[i][1] = "DATE-OBS" /\ cs[i][2] = ":"}
            mentions == {i \in 1..Len(cs) :
                            \E j \in 1..Len(cs[i]) : cs[i][j] \in {"DATE-OBS", "date-obs"}}
            housed == {i \in 1..Len(cs) : cs[i][1] = "FACILITY" /\ cs[i][2] = ":"}
            named == {i \in 1..Len(cs) :
                         \E j \in 1..Len(cs[i]) : cs[i][j] \in {"FACILITY", "Facility"}}
            value(i) == Strip(SubSeq(cs[i], 3, Len(cs[i])))
        IN /\ (Cardinality(dated) = 1 /\ mentions = dated) =>
                 LET i == CHOOSE k \in dated : TRUE
                 IN /\ call.res.outcome = DateObsToAstropyTime(value(i)).outcome
                    /\ call.res.date_obs = DateObsToAstropyTime(value(i)).value
           /\ (Cardinality(housed) = 1 /\ named = housed /\ call.res.outcome = "ok") =>
                 LET i == CHOOSE k \in housed : TRUE
                 IN <<call.res.spectrum.flux[2]>> = value(i)
           /\ mentions = {} => call.res.outcome = "InvalidFileFormatException"

\* C6: a facility or an observation date given through the form is the one
\* used, in FITS and in plaintext processing, and the file is consulted only
\* for what the form did not give: with both given, nothing in the header or
\* in the comments changes the result or makes the call fail.
C6_FormValuesTakePrecedence ==
    call.op \in {"_process_spectrum_from_fits", "_process_spectrum_from_plaintext"} =>
        LET k == call.args.kwargs
            d == k.observation_date
            readable == call.op = "_process_spectrum_from_plaintext" =>
                            call.args.file.rows >= 1
        IN /\ (d # None /\ call.res.outcome = "ok") =>
                 call.res.date_obs = <<d[1], d[3], d[5], d[7]>>
           /\ (k.facility # None /\ call.res.outcome = "ok") =>
                 call.res.spectrum.flux[2] = k.facility[1]
           /\ (d # None /\ k.facility # None /\ readable) => call.res.outcome = "ok"

C6_Witness ==
    /\ call.op = "_process_spectrum_from_plaintext"
    /\ call.args.kwargs.observation_date # None
    /\ call.args.kwargs.facility = <<"GEM">>
    /\ call.args.file.rows = 1
    /\ call.args.file.comments = <<<<"FACILITY", ":", " ", "LCO">>,
                                   <<"DATE-OBS", ":", " ", "2020-01-01">>>>
    /\ call.res.outcome = "ok"
    /\ call.res.date_obs[1] = "2021-06-30"
    /\ call.res.spectrum.flux[2] = "GEM"

\* C2: when run_data_processor(dp) returns, the ReducedDatum table has grown
\* by exactly one row for each (timestamp, value) pair that process_data of
\* the processor configured for dp.data_product_type returned, in order, each
\* linked to dp and dp.target with dp.data_product_type as data_type; a type
\* missing from or empty in settings.DATA_PRODUCT_TYPES gets the default
\* DataProcessor and no row.
C2_OneReducedDatumPerPair ==
    [][(call'.op = "run_data_processor" /\ call'.res.outcome = "ok") =>
          LET dp == call'.args.dp
              data == call'.res.data
              n == Len(reduced_datums)
              unset == \/ dp.data_product_type \notin DOMAIN DATA_PRODUCT_TYPES
                       \/ DATA_PRODUCT_TYPES[dp.data_product_type] = ""
          IN /\ Len(reduced_datums') = n + Len(data)
             /\ SubSeq(reduced_datums', 1, n) = reduced_datums
             /\ \A i \in 1..Len(data) :
                   reduced_datums'[n + i] =
                       [target |-> dp.target, data_product |-> dp.id,
                        data_type |-> dp.data_product_type,
                        timestamp |-> data[i][1], value |-> data[i][2]]
             /\ ~unset =>
                   call'.res.processor_class = DATA_PRODUCT_TYPES[dp.data_product_type]
             /\ unset =>
                   /\ call'.res.processor_class =
                          "tom_dataproducts.data_processor.DataProcessor"
                   /\ reduced_datums' = reduced_datums]_vars

C2_Witness ==
    /\ call.op = "run_data_processor"
    /\ call.res.outcome = "ok"
    /\ call.args.dp.id = 2
    /\ Len(call.res.data) = 2
    /\ call.res.data[1] = call.res.data[2]
    /\ Len(reduced_datums) = 2
    /\ reduced_datums[1] = reduced_datums[2]
    /\ reduced_datums[2].data_product = 2
    /\ reduced_datums[2].target = "M42"

====
